---- MODULE Spec2Model ----
(***************************************************************************)
(* State-machine model of the SolApp backend (Backend/app/api/tokens.py,   *)
(* Backend/app/api/wallets.py, Backend/app/models/__init__.py).           *)
(*                                                                         *)
(* The remote ledger reached through the solana RPC client is the          *)
(* environment: its answers are drawn from small sets.  Each HTTP handler  *)
(* is translated from its code; a handler that only makes sequential RPC   *)
(* calls on request-local data is one action, get_trending_tokens is one   *)
(* action per RPC round (samples, one block, ranking).                     *)
(***************************************************************************)
EXTENDS Integers, Sequences, FiniteSets, TLC

VARIABLES
    \* ---- remote ledger, as seen by get_trending_tokens
    samples,             \* answer of get_recent_performance_samples
    chain,               \* slot -> answer of get_block(slot)
    \* ---- get_trending_tokens (tokens.py:62-111)
    tt_pc,               \* "idle" | "scan" | "done" | "failed"
    tt_limit,            \* the limit query parameter
    slots,               \* tokens.py:75
    slot_idx,            \* position of the for loop of tokens.py:78
    token_transactions,  \* tokens.py:76, a dict kept in insertion order
    tokens,              \* tokens.py:103, the returned list
    tt_status,           \* HTTP status of the response, 0 while running
    block_calls,         \* slots passed to client.get_block so far
    metadata_calls,      \* number of get_token_metadata calls so far
    metadata_fetched,    \* the address and the outcome of each of them, in order
    \* ---- get_wallet_balance (wallets.py:93-157), its last call
    wb_call,             \* the request and the ledger's two answers
    wb_status,           \* HTTP status of the response, 0 before any call
    wb_response,         \* <<WalletBalance>> when one was returned, <<>> otherwise
    wb_token_fetch,      \* whether getTokenAccountsByOwner was requested
    \* ---- wallet store and signature history (wallets.py:18, 160-208)
    wallets,             \* wallets.py:18, public key -> wallet record
    ledger,              \* the signatures of LedgerAddress, newest first
    h_call,              \* last get_wallet_transactions request
    h_status,            \* its HTTP status, 0 before any call
    transactions,        \* wallets.py:182, the list it returned
    h_height,            \* length of the ledger when it was called
    h_chained,           \* its cursor was the last signature of the page before
    h_prev,              \* signatures of that page when h_chained
    h_rpc,               \* number of RPC calls that request made
    h_store,             \* the wallet store before and after that request
    wallet_order,        \* the keys of `wallets` in insertion order
    \* ---- the wallet endpoints (wallets.py:24-90), the last request
    w_call,              \* the endpoint and its arguments
    w_status,            \* HTTP status of the response, 0 before any request
    w_response,          \* the records of the response body
    w_rpc,               \* number of RPC calls the request made
    w_store,             \* the wallet store before and after the request
    \* ---- create_custom_token (tokens.py:154-201), one run
    pv_pc,               \* state of the provisioning flow
    pv_token_data,       \* the CustomToken of the request
    pv_calls,            \* the calls made so far and their answers, in order
    pv_status,           \* HTTP status of the response, 0 while running
    pv_response,         \* <<TokenX>> when one was returned, <<>> otherwise
    \* ---- the dashboard (frontend/main.py), one browser session
    session_state,       \* st.session_state
    wallet_file,         \* wallet_data/wallets.json: hashed key -> wallet data
    keys_generated       \* number of private keys generate_private_key returned

tt_vars == <<samples, chain, tt_pc, tt_limit, slots, slot_idx,
             token_transactions, tokens, tt_status, block_calls, metadata_calls,
            metadata_fetched>>

wb_vars == <<wb_call, wb_status, wb_response, wb_token_fetch>>

h_vars == <<wallets, ledger, h_call, h_status, transactions, h_height, h_chained, h_prev,
           h_rpc, h_store, wallet_order>>

ws_vars == <<w_call, w_status, w_response, w_rpc, w_store>>

pv_vars == <<pv_pc, pv_token_data, pv_calls, pv_status, pv_response>>

ss_vars == <<session_state, wallet_file, keys_generated>>

vars == <<tt_vars, wb_vars, h_vars, pv_vars, ws_vars, ss_vars>>

-----------------------------------------------------------------------------
(* Bounds of the model *)

\* limit is drawn from -1 .. MaxLimit
MaxLimit == 3

\* getTokenAccountsByOwner returns at most MaxAccounts entries
MaxAccounts == 2

\* the history of an address holds at most MaxSignatures signatures
MaxSignatures == 4

\* the limit of get_wallet_transactions is drawn from 1 .. MaxPage
MaxPage == 3

-----------------------------------------------------------------------------
(* Generic sequence helpers *)

Min(a, b) == IF a < b THEN a ELSE b
Max(a, b) == IF a > b THEN a ELSE b

RECURSIVE Flatten(_)
Flatten(ss) == IF ss = <<>> THEN <<>> ELSE Head(ss) \o Flatten(Tail(ss))

SeqRange(s) == {s[i] : i \in 1..Len(s)}

\* Python's s[:n] for any integer n
SliceTo(s, n) ==
    IF n >= 0 THEN SubSeq(s, 1, Min(n, Len(s)))
              ELSE SubSeq(s, 1, Max(Len(s) + n, 0))

-----------------------------------------------------------------------------
(* The ledger seen by the token aggregator *)

TOKEN_PROGRAM_ID == "TokenProgram"

\* accounts whose mint info decodes; every other account has no mint info
Mints == {"MintA", "MintB"}

\* the window of tokens.py:67 and tokens.py:75
ScanWindow == 5

AbsentBlock == [kind |-> "absent", txs |-> <<>>, down |-> {}]
RaisingBlock == [kind |-> "raises", txs |-> <<>>, down |-> {}]

\* A block: its transactions, each the account keys of its message, and the
\* mints whose metadata fetch fails while the block is scanned.
BlockOne == [kind |-> "block",
             txs |-> << <<TOKEN_PROGRAM_ID, "MintB", "MintA">>, <<"Wallet1", "MintA">> >>,
             down |-> {}]
BlockTwo == [kind |-> "block",
             txs |-> << <<"Wallet1", TOKEN_PROGRAM_ID, "MintA">> >>,
             down |-> {}]
BlockThree == [kind |-> "block",
               txs |-> << <<TOKEN_PROGRAM_ID, "MintA", "MintB">>, <<"MintB", TOKEN_PROGRAM_ID>> >>,
               down |-> {"MintA"}]

BlockAnswers == {AbsentBlock, RaisingBlock, BlockOne, BlockTwo, BlockThree}

\* get_recent_performance_samples: it raises, or returns 0..ScanWindow samples.
\* Sample i carries slot i.
SampleAnswers ==
    {[raises |-> TRUE, value |-> <<>>]} \cup
    {[raises |-> FALSE, value |-> [i \in 1..n |-> i]] : n \in 0..ScanWindow}

-----------------------------------------------------------------------------
(* get_token_metadata, tokens.py:28-59 *)

NoMetadata == [found |-> FALSE, address |-> ""]

\* None when the account has no value, when the mint info does not decode or
\* when any call raises (the except of line 58); the metadata dict otherwise.
get_token_metadata(token_address, down) ==
    IF token_address \in Mints /\ token_address \notin down
    THEN [found |-> TRUE, address |-> token_address]
    ELSE NoMetadata

-----------------------------------------------------------------------------
(* get_trending_tokens, tokens.py:62-111 *)

DictIndex(dict, key) ==
    IF \E i \in 1..Len(dict) : dict[i].address = key
    THEN CHOOSE i \in 1..Len(dict) : dict[i].address = key
    ELSE 0

\* tokens.py:87-96 for one account: no metadata, no entry and no count
CountAccount(dict, account, down) ==
    LET token_info == get_token_metadata(account, down)
        entered == IF DictIndex(dict, account) = 0
                   THEN Append(dict, [address |-> account, count |-> 0,
                                      metadata |-> token_info])
                   ELSE dict
    IN IF ~token_info.found
       THEN dict
       ELSE [entered EXCEPT ![DictIndex(entered, account)].count = @ + 1]

\* tokens.py:86-96, the loop over the account keys of one transaction
RECURSIVE CountAccounts(_, _, _)
CountAccounts(dict, keys, down) ==
    IF keys = <<>> THEN dict
    ELSE CountAccounts(CountAccount(dict, Head(keys), down), Tail(keys), down)

\* tokens.py:85
IsTokenTransaction(keys) == TOKEN_PROGRAM_ID \in SeqRange(keys)

\* tokens.py:84-96, the loop over the transactions of one block
RECURSIVE CountTransactions(_, _, _)
CountTransactions(dict, txs, down) ==
    IF txs = <<>> THEN dict
    ELSE CountTransactions(
             IF IsTokenTransaction(Head(txs))
             THEN CountAccounts(dict, Head(txs), down)
             ELSE dict,
             Tail(txs), down)

\* number of get_token_metadata calls made while scanning the transactions
RECURSIVE MetadataCallsOf(_)
MetadataCallsOf(txs) ==
    IF txs = <<>> THEN 0
    ELSE (IF IsTokenTransaction(Head(txs)) THEN Len(Head(txs)) ELSE 0)
         + MetadataCallsOf(Tail(txs))

\* tokens.py:86-87: the get_token_metadata calls made while scanning the
\* transactions, each with the address passed and whether it resolved
RECURSIVE MetadataFetchesOf(_, _)
MetadataFetchesOf(txs, down) ==
    IF txs = <<>> THEN <<>>
    ELSE (IF IsTokenTransaction(Head(txs))
          THEN [i \in 1..Len(Head(txs)) |->
                   [address |-> Head(txs)[i],
                    found |-> get_token_metadata(Head(txs)[i], down).found]]
          ELSE <<>>)
         \o MetadataFetchesOf(Tail(txs), down)

\* one step of sorted(..., reverse=True): the item goes after every item
\* whose count is greater or equal (the sort is stable)
InsertByCountUnstable(sorted_items, item) ==
    LET before == {i \in 1..Len(sorted_items) : sorted_items[i].count > item.count}
        k == Cardinality(before)
    IN SubSeq(sorted_items, 1, k) \o <<item>> \o SubSeq(sorted_items, k + 1, Len(sorted_items))

InsertByCount(sorted_items, item) ==
    LET before == {i \in 1..Len(sorted_items) : sorted_items[i].count >= item.count}
        k == Cardinality(before)
    IN SubSeq(sorted_items, 1, k) \o <<item>> \o SubSeq(sorted_items, k + 1, Len(sorted_items))

\* tokens.py:99-101, sorted(token_transactions.items(), key=count, reverse=True)
RECURSIVE SortByCount(_, _)
SortByCount(sorted_items, items) ==
    IF items = <<>> THEN sorted_items
    ELSE SortByCount(InsertByCount(sorted_items, Head(items)), Tail(items))

\* tokens.py:99-101 with the slice
sorted_tokens(dict, limit) == SliceTo(SortByCount(<<>>, dict), limit)

\* tokens.py:103-106
TokenX(symbol, name, address, price) ==
    [symbol |-> symbol, name |-> name, address |-> address, price |-> price]

TokensOf(items) ==
    [i \in 1..Len(items) |-> TokenX("Unknown", "Unknown", items[i].address, 0)]

\* tokens.py:70 and the except of line 109: no samples to scan
SamplesUnusableUnlessEmpty(response) == response.raises

SamplesUnusable(response) == response.raises \/ response.value = <<>>

\* tokens.py:67-75: the samples are fetched; an exception or an empty list
\* ends in the HTTPException of line 72 or 111, status 500
FetchSamples(limit) ==
    /\ tt_pc = "idle"
    /\ tt_limit' = limit
    /\ IF SamplesUnusable(samples)
       THEN /\ tt_pc' = "failed"
            /\ tt_status' = 500
            /\ slots' = <<>>
       ELSE /\ tt_pc' = "scan"
            /\ tt_status' = 0
            /\ slots' = SubSeq(samples.value, 1, Min(ScanWindow, Len(samples.value)))
    /\ slot_idx' = 1
    /\ token_transactions' = <<>>
    /\ UNCHANGED <<samples, chain, tokens, block_calls, metadata_calls, metadata_fetched>>
    /\ UNCHANGED <<wb_vars, h_vars, pv_vars, ws_vars, ss_vars>>

\* tokens.py:80-82: what the loop does with a block that has no value
MissingBlockAborts(kind) == IF kind = "absent" THEN "abort" ELSE "scan"

MissingBlockPolicy(kind) == IF kind = "absent" THEN "skip" ELSE "scan"

\* tokens.py:78-96: one iteration of the loop over the slots
ScanBlock ==
    /\ tt_pc = "scan"
    /\ slot_idx <= Len(slots)
    /\ LET slot == slots[slot_idx]
           block_info == chain[slot]
       IN /\ block_calls' = Append(block_calls, slot)
          /\ IF block_info.kind = "raises"
                \/ MissingBlockPolicy(block_info.kind) = "abort"
             THEN /\ tt_pc' = "failed"
                  /\ tt_status' = 500
                  /\ UNCHANGED <<token_transactions, metadata_calls, metadata_fetched, slot_idx>>
             ELSE IF MissingBlockPolicy(block_info.kind) = "skip"
             THEN /\ slot_idx' = slot_idx + 1
                  /\ UNCHANGED <<tt_pc, tt_status, token_transactions, metadata_calls,
                                 metadata_fetched>>
             ELSE /\ token_transactions' =
                         CountTransactions(token_transactions, block_info.txs, block_info.down)
                  /\ metadata_calls' = metadata_calls + MetadataCallsOf(block_info.txs)
                  /\ metadata_fetched' = metadata_fetched \o
                         MetadataFetchesOf(block_info.txs, block_info.down)
                  /\ slot_idx' = slot_idx + 1
                  /\ UNCHANGED <<tt_pc, tt_status>>
    /\ UNCHANGED <<samples, chain, tt_limit, slots, tokens>>
    /\ UNCHANGED <<wb_vars, h_vars, pv_vars, ws_vars, ss_vars>>

\* tokens.py:98-108: the ranking and the response
RankTokens ==
    /\ tt_pc = "scan"
    /\ slot_idx > Len(slots)
    /\ tokens' = TokensOf(sorted_tokens(token_transactions, tt_limit))
    /\ tt_pc' = "done"
    /\ tt_status' = 200
    /\ UNCHANGED <<samples, chain, tt_limit, slots, slot_idx, token_transactions,
                   block_calls, metadata_calls, metadata_fetched>>
    /\ UNCHANGED <<wb_vars, h_vars, pv_vars, ws_vars, ss_vars>>

TrendingIdle ==
    /\ tt_pc = "idle"
    /\ tt_limit = 0
    /\ slots = <<>>
    /\ slot_idx = 1
    /\ token_transactions = <<>>
    /\ tokens = <<>>
    /\ tt_status = 0
    /\ block_calls = <<>>
    /\ metadata_calls = 0
    /\ metadata_fetched = <<>>

TrendingNext ==
    \/ \E limit \in -1..MaxLimit : FetchSamples(limit)
    \/ ScanBlock
    \/ RankTokens

-----------------------------------------------------------------------------
(* JSON values of the getTokenAccountsByOwner answer, wallets.py:128 *)

JNull == [t |-> "null", v |-> 0]
JStr(s) == [t |-> "str", v |-> s]
JNum(n) == [t |-> "num", v |-> n]
JDict(d) == [t |-> "dict", v |-> d]
JList(q) == [t |-> "list", v |-> q]

Raised(exception) == [exc |-> exception, val |-> JNull]
Value(val) == [exc |-> "", val |-> val]

\* Python's obj[key] for a string key: KeyError on a dict without the key,
\* TypeError on None, a string, a number or a list
Subscript(obj, key) ==
    IF obj.t = "dict"
    THEN IF key \in DOMAIN obj.v THEN Value(obj.v[key]) ELSE Raised("KeyError")
    ELSE Raised("TypeError")

\* obj[k1][k2]...
RECURSIVE SubscriptPath(_, _)
SubscriptPath(obj, keys) ==
    IF keys = <<>> THEN Value(obj)
    ELSE LET first == Subscript(obj, Head(keys))
         IN IF first.exc # "" THEN first ELSE SubscriptPath(first.val, Tail(keys))

\* Python's `key in obj` as used in wallets.py:132-133
HasKey(obj, key) == obj.t = "dict" /\ key \in DOMAIN obj.v

-----------------------------------------------------------------------------
(* The models of Backend/app/models/__init__.py *)

\* TokenBalance (models/__init__.py:36-39): symbol and balance are required,
\* a keyword that names no field is ignored
TokenBalance(kwargs) ==
    IF /\ "symbol" \in DOMAIN kwargs
       /\ kwargs["symbol"].t = "str"
       /\ "balance" \in DOMAIN kwargs
       /\ kwargs["balance"].t = "num"
    THEN Value(JDict([symbol |-> kwargs["symbol"], balance |-> kwargs["balance"],
                      usd_value |-> JNull]))
    ELSE Raised("ValidationError")

\* WalletBalance (models/__init__.py:42-45)
WalletBalance(sol_balance, usd_value, token_list) ==
    [sol_balance |-> sol_balance, usd_value |-> usd_value, tokens |-> token_list]

-----------------------------------------------------------------------------
(* get_wallet_balance, wallets.py:93-157 *)

\* A lamport amount does not fit TLC's 32-bit integers: it is kept as
\* two decimal limbs, amount = hi * LimbBase + lo with 0 <= lo < LimbBase.
LimbBase == 10 ^ 5

\* decimal digits of the unit scale 1e9 of wallets.py:104
LamportScaleDigits == 9

\* a display amount: whole + nanos / 10^9, 0 <= nanos < 10^9
SolAmount(whole, nanos) == [whole |-> whole, nanos |-> nanos]

\* wallets.py:104 with the wrong scale, 1e6
LamportsToSolPerMillion(value) ==
    LET scale == 10 ^ (6 - 5)
    IN SolAmount(value.hi \div scale, ((value.hi % scale) * LimbBase + value.lo) * 1000)

\* wallets.py:104, response.value / 1e9
LamportsToSol(value) ==
    LET scale == (10 ^ LamportScaleDigits) \div LimbBase
    IN SolAmount(value.hi \div scale, (value.hi % scale) * LimbBase + value.lo)

\* wallets.py:101 without the check
BalanceMissingIgnored(response) == FALSE

\* wallets.py:101
BalanceMissing(response) == response.none

\* wallets.py:136-148 for one account: the TokenBalance to append, or the
\* exception raised on the way
ParseTokenAccount(account) ==
    LET parsed_data == SubscriptPath(account, <<"account", "data", "parsed", "info">>)
        mint_address == Subscript(parsed_data.val, "mint")
        token_amount == Subscript(parsed_data.val, "tokenAmount")
        ui_amount == Subscript(token_amount.val, "uiAmount")
    IN IF parsed_data.exc # "" THEN parsed_data
       ELSE IF mint_address.exc # "" THEN mint_address
       ELSE IF token_amount.exc # "" THEN token_amount
       ELSE IF ui_amount.exc # "" THEN ui_amount
       ELSE TokenBalance([address |-> mint_address.val, balance |-> ui_amount.val,
                          usd_value |-> JNull])

\* wallets.py:146: the exceptions the loop body catches
CaughtPerAccount == {"KeyError", "TypeError"}

\* wallets.py:135-148: the loop; [exc, val] with val the token_balances list
RECURSIVE ParseTokenAccounts(_, _)
ParseTokenAccounts(token_balances, accounts) ==
    IF accounts = <<>> THEN [exc |-> "", val |-> token_balances]
    ELSE LET parsed == ParseTokenAccount(Head(accounts))
         IN IF parsed.exc = ""
            THEN ParseTokenAccounts(Append(token_balances, parsed.val), Tail(accounts))
            ELSE IF parsed.exc \in CaughtPerAccount
            THEN ParseTokenAccounts(token_balances, Tail(accounts))
            ELSE [exc |-> parsed.exc, val |-> token_balances]

\* wallets.py:128-148 on the decoded answer
TokenBalancesOf(token_response_data) ==
    IF /\ HasKey(token_response_data, "result")
       /\ HasKey(token_response_data.v["result"], "value")
    THEN ParseTokenAccounts(<<>>, token_response_data.v["result"].v["value"].v)
    ELSE [exc |-> "", val |-> <<>>]

\* the whole handler; requests share no state, one request is followed
GetWalletBalance(public_key, balance_response, token_response) ==
    /\ wb_status = 0
    /\ wb_call' = [public_key |-> public_key, balance |-> balance_response,
                   tokens |-> token_response]
    /\ IF ~public_key.valid \/ BalanceMissing(balance_response)
       THEN \* Pubkey.from_string raises, or line 102: both end at line 157
            /\ wb_status' = 500
            /\ wb_response' = <<>>
            /\ wb_token_fetch' = FALSE
       ELSE LET sol_balance == LamportsToSol(balance_response)
                token_balances == IF token_response.raises
                                  THEN [exc |-> "RequestException", val |-> <<>>]
                                  ELSE TokenBalancesOf(token_response.data)
            IN /\ wb_token_fetch' = TRUE
               /\ IF token_balances.exc # ""
                  THEN /\ wb_status' = 500
                       /\ wb_response' = <<>>
                  ELSE /\ wb_status' = 200
                       /\ wb_response' = <<WalletBalance(sol_balance, JNull,
                                                         token_balances.val)>>
    /\ UNCHANGED <<tt_vars, h_vars, pv_vars, ws_vars, ss_vars>>

\* ---- the answers of the ledger

PublicKeys == {[valid |-> TRUE, text |-> "addr1"], [valid |-> FALSE, text |-> "not-base58"]}

BalanceAnswers ==
    {[none |-> TRUE, hi |-> 0, lo |-> 0]} \cup
    {[none |-> FALSE, hi |-> h, lo |-> l] : h \in {0, 1, 12345, 25000}, l \in {0, 1, 99999}}

TokenAccount(info) ==
    JDict([pubkey |-> JStr("acct"),
           account |-> JDict([data |-> JDict([parsed |-> JDict([info |-> info])])])])

WellFormedAccount ==
    TokenAccount(JDict([mint |-> JStr("MintA"),
                        tokenAmount |-> JDict([uiAmount |-> JNum(15)])]))
NullAmountAccount ==
    TokenAccount(JDict([mint |-> JStr("MintB"),
                        tokenAmount |-> JDict([uiAmount |-> JNull])]))
MissingKeyAccount == TokenAccount(JDict([mint |-> JStr("MintA")]))
NullFieldAccount == TokenAccount(JNull)
WrongTypeAccount == JDict([pubkey |-> JStr("acct"), account |-> JStr("base64")])

AccountAnswers == {WellFormedAccount, NullAmountAccount, MissingKeyAccount,
                   NullFieldAccount, WrongTypeAccount}

AccountsResult(accounts) ==
    [raises |-> FALSE, data |-> JDict([result |-> JDict([value |-> JList(accounts)])])]

TokenAnswers ==
    {[raises |-> TRUE, data |-> JNull],
     [raises |-> FALSE, data |-> JDict([error |-> JStr("invalid params")])]} \cup
    {AccountsResult(accounts) :
        accounts \in UNION {[1..n -> AccountAnswers] : n \in 0..MaxAccounts}}

NoCall == [public_key |-> [valid |-> FALSE, text |-> ""],
           balance |-> [none |-> TRUE, hi |-> 0, lo |-> 0],
           tokens |-> [raises |-> TRUE, data |-> JNull]]

BalanceIdle ==
    /\ wb_call = NoCall
    /\ wb_status = 0
    /\ wb_response = <<>>
    /\ wb_token_fetch = FALSE

BalanceNext ==
    \E public_key \in PublicKeys, balance_response \in BalanceAnswers,
       token_response \in TokenAnswers :
        GetWalletBalance(public_key, balance_response, token_response)

-----------------------------------------------------------------------------
(* The wallet store, wallets.py:18-48 *)

\* the public keys a generated keypair can have, and one never generated
GeneratedKeys == {"addr1"}
UnknownKey == "addr2"

\* `public_key in wallets` with the test left out
WalletKnownAlways(store, public_key) == TRUE

\* wallets.py:60, 68 and 169, `public_key in wallets`
WalletKnown(store, public_key) == public_key \in DOMAIN store

\* wallets[public_key]: the stored dict, or KeyError
Lookup(store, public_key) ==
    IF public_key \in DOMAIN store THEN Value(store[public_key]) ELSE Raised("KeyError")

\* WalletResponse (models/__init__.py:48-52): the three fields are required;
\* the instance holds them all
WalletResponse(kwargs) ==
    IF {"private_key", "public_key", "name"} \subseteq DOMAIN kwargs
    THEN Value([private_key |-> kwargs["private_key"], public_key |-> kwargs["public_key"],
                name |-> kwargs["name"]])
    ELSE Raised("ValidationError")

\* response_model=List[WalletResponse] over list(wallets.values()), in
\* insertion order
RECURSIVE WalletResponses(_, _)
WalletResponses(store, order) ==
    IF order = <<>> THEN <<>>
    ELSE <<WalletResponse(store[Head(order)]).val>> \o WalletResponses(store, Tail(order))

\* the store as the handler found it and as it left it
StoreChange == [before |-> wallets, after |-> wallets']

\* the seed of a keypair, as the hex string of wallets.py:33
SeedOf(public_key) == <<"seed", public_key>>

\* wallets.py:24-48: the keypair is generated and the wallet stored, then the
\* WalletResponse is built from public_key and name
CreateWallet(public_key, name) ==
    /\ public_key \notin DOMAIN wallets
    /\ LET wallet == [public_key |-> public_key, private_key |-> SeedOf(public_key),
                      name |-> name]
           stored == [k \in DOMAIN wallets \cup {public_key} |->
                         IF k = public_key THEN wallet ELSE wallets[k]]
           response == WalletResponse([public_key |-> wallet.public_key,
                                       name |-> wallet.name])
       IN /\ wallets' = stored
          /\ wallet_order' = Append(wallet_order, public_key)
          /\ w_store' = StoreChange
          /\ IF response.exc # ""
             THEN /\ w_status' = 500
                  /\ w_response' = <<>>
             ELSE /\ w_status' = 200
                  /\ w_response' = <<response.val>>
    /\ w_call' = [op |-> "create_wallet", public_key |-> public_key]
    /\ w_rpc' = 0
    /\ UNCHANGED <<ledger, h_call, h_status, transactions, h_height, h_chained, h_prev,
                   h_rpc, h_store>>
    /\ UNCHANGED <<tt_vars, wb_vars, pv_vars, ss_vars>>

\* wallets.py:51-54: every stored dict, through the response model
GetWallets ==
    /\ w_call' = [op |-> "get_wallets", public_key |-> ""]
    /\ w_status' = 200
    /\ w_response' = WalletResponses(wallets, wallet_order)
    /\ w_rpc' = 0
    /\ UNCHANGED <<tt_vars, wb_vars, h_vars, pv_vars, ss_vars>>
    /\ w_store' = StoreChange

\* wallets.py:57-62
GetWallet(public_key) ==
    /\ w_call' = [op |-> "get_wallet", public_key |-> public_key]
    /\ LET wallet == Lookup(wallets, public_key)
       IN IF ~WalletKnown(wallets, public_key)
          THEN /\ w_status' = 404
               /\ w_response' = <<>>
          ELSE IF wallet.exc # "" \/ WalletResponse(wallet.val).exc # ""
          THEN /\ w_status' = 500
               /\ w_response' = <<>>
          ELSE /\ w_status' = 200
               /\ w_response' = <<WalletResponse(wallet.val).val>>
    /\ w_rpc' = 0
    /\ UNCHANGED <<tt_vars, wb_vars, h_vars, pv_vars, ss_vars>>
    /\ w_store' = StoreChange

\* the token addresses a caller can pass, and what the ledger answers to
\* create_associated_token_account
TokenAddresses == {[valid |-> TRUE, text |-> "MintA"], [valid |-> FALSE, text |-> "not-base58"]}
AssociatedAccountAnswers == {"raises", "created"}

\* wallets.py:65-90
AddTokenToWallet(public_key, token_address, answer) ==
    /\ w_call' = [op |-> "add_token_to_wallet", public_key |-> public_key]
    /\ LET wallet == Lookup(wallets, public_key)
       IN IF ~WalletKnown(wallets, public_key)
          THEN /\ w_status' = 404
               /\ w_response' = <<>>
               /\ w_rpc' = 0
          ELSE IF wallet.exc # "" \/ ~token_address.valid
          THEN /\ w_status' = 500
               /\ w_response' = <<>>
               /\ w_rpc' = 0
          ELSE IF answer = "raises"
          THEN /\ w_status' = 500
               /\ w_response' = <<>>
               /\ w_rpc' = 1
          ELSE /\ w_status' = 200
               /\ w_response' = <<[message |-> "Token added successfully",
                                   associated_token_account |->
                                       <<public_key, token_address.text>>]>>
               /\ w_rpc' = 1
    /\ UNCHANGED <<tt_vars, wb_vars, h_vars, pv_vars, ss_vars>>
    /\ w_store' = StoreChange

-----------------------------------------------------------------------------
(* The signature history kept by the ledger *)

\* the address whose history `ledger` is; any other address has none
LedgerAddress == "addr1"

\* what get_transaction answers for a signature: no value, a transfer to the
\* address, a transfer from it, or an exception
TransactionAnswers == {"absent", "receive", "send", "raises"}

NoCursor == [none |-> TRUE, signature |-> 0]
Cursor(signature) == [none |-> FALSE, signature |-> signature]

\* a transaction lands: it is the newest signature of the address
SubmitTransaction(answer) ==
    /\ Len(ledger) < MaxSignatures
    /\ ledger' = <<[signature |-> Len(ledger) + 1, block_time |-> Len(ledger) + 1,
                    answer |-> answer, confirmed |-> (answer # "send")]>> \o ledger
    /\ UNCHANGED <<wallets, h_call, h_status, transactions, h_height, h_chained, h_prev,
                   h_rpc, h_store, wallet_order>>
    /\ UNCHANGED <<tt_vars, wb_vars, pv_vars, ws_vars, ss_vars>>

SignaturesFor(address) == IF address = LedgerAddress THEN ledger ELSE <<>>

\* getSignaturesForAddress: newest first, strictly after the cursor, at most limit
get_signatures_for_address(request) ==
    LET history == SignaturesFor(request.address)
        after == IF request.before.none THEN history
                 ELSE LET at == CHOOSE i \in 1..Len(history) :
                                    history[i].signature = request.before.signature
                      IN SubSeq(history, at + 1, Len(history))
    IN SubSeq(after, 1, Min(request.limit, Len(after)))

\* the transfer a resolvable transaction holds: its two first account keys and
\* the lamports of its first instruction, in two limbs
TransferOf(signature_info) ==
    IF signature_info.answer = "receive"
    THEN [to_wallet |-> TRUE, account_keys |-> <<"addr9", LedgerAddress>>,
          amount |-> [hi |-> 10000, lo |-> 0]]
    ELSE [to_wallet |-> FALSE, account_keys |-> <<LedgerAddress, "addr9">>,
          amount |-> [hi |-> 5000, lo |-> 1]]

-----------------------------------------------------------------------------
(* get_wallet_transactions, wallets.py:160-208 *)

\* Transaction (models/__init__.py:25-33)
Transaction(signature, timestamp, type, amount, token_symbol, from_address, to_address, status) ==
    [signature |-> signature, timestamp |-> timestamp, type |-> type, amount |-> amount,
     token_symbol |-> token_symbol, from_address |-> from_address,
     to_address |-> to_address, status |-> status]

\* wallets.py:176-180 without the cursor
SignaturesRequestNoCursor(public_key, limit, before) ==
    [address |-> public_key, limit |-> limit, before |-> NoCursor]

\* wallets.py:176-180 asking for one signature more
SignaturesRequestOneMore(public_key, limit, before) ==
    [address |-> public_key, limit |-> limit + 1, before |-> before]

\* wallets.py:176-180, the arguments of get_signatures_for_address
SignaturesRequest(public_key, limit, before) ==
    [address |-> public_key, limit |-> limit, before |-> before]

\* wallets.py:190-192 answering "send" whatever the destination
tx_type_always_send(is_to_wallet) == "send"

\* wallets.py:190-192
tx_type(is_to_wallet) == IF is_to_wallet THEN "receive" ELSE "send"

\* wallets.py:190-204 for one resolvable transaction
TransactionRecord(public_key, signature_info) ==
    LET tx == TransferOf(signature_info)
    IN Transaction(signature_info.signature,
                   [epoch |-> signature_info.block_time],
                   tx_type(tx.to_wallet),
                   LamportsToSol(tx.amount),
                   "SOL",
                   tx.account_keys[1],
                   tx.account_keys[2],
                   IF signature_info.confirmed THEN "confirmed" ELSE "pending")

\* wallets.py:195 with the record put at the front
AppendRecordReversed(list, record) == <<record>> \o list

\* wallets.py:195
AppendRecord(list, record) == Append(list, record)

\* wallets.py:183-204: the loop; [exc, val] with val the transactions list
RECURSIVE ReconstructHistory(_, _, _)
ReconstructHistory(list, public_key, signature_infos) ==
    IF signature_infos = <<>> THEN [exc |-> "", val |-> list]
    ELSE LET signature_info == Head(signature_infos)
         IN IF signature_info.answer = "raises"
            THEN [exc |-> "RPCException", val |-> list]
            ELSE IF signature_info.answer = "absent"
            THEN ReconstructHistory(list, public_key, Tail(signature_infos))
            ELSE ReconstructHistory(
                     AppendRecord(list, TransactionRecord(public_key, signature_info)),
                     public_key, Tail(signature_infos))

\* wallets.py:185: the get_transaction calls of the loop, which ends at the
\* first one that raises
RECURSIVE TransactionCallsOf(_)
TransactionCallsOf(signature_infos) ==
    IF signature_infos = <<>> THEN 0
    ELSE IF Head(signature_infos).answer = "raises" THEN 1
    ELSE 1 + TransactionCallsOf(Tail(signature_infos))

SignaturesOf(list) == [i \in 1..Len(list) |-> list[i].signature]

\* the whole handler
GetWalletTransactions(public_key, limit, before) ==
    /\ h_call' = [public_key |-> public_key, limit |-> limit, before |-> before]
    /\ h_height' = Len(ledger)
    /\ LET chained == /\ h_status = 200
                      /\ transactions # <<>>
                      /\ h_call.public_key = public_key
                      /\ ~before.none
                      /\ before.signature = transactions[Len(transactions)].signature
       IN /\ h_chained' = chained
          /\ h_prev' = IF chained THEN SignaturesOf(transactions) ELSE <<>>
    /\ IF ~WalletKnown(wallets, public_key)
       THEN /\ h_status' = 404
            /\ transactions' = <<>>
            /\ h_rpc' = 0
       ELSE LET response == get_signatures_for_address(
                                SignaturesRequest(public_key, limit, before))
                history == ReconstructHistory(<<>>, public_key, response)
            IN /\ h_rpc' = 1 + TransactionCallsOf(response)
               /\ IF history.exc # ""
                  THEN /\ h_status' = 500
                       /\ transactions' = <<>>
                  ELSE /\ h_status' = 200
                       /\ transactions' = history.val
    /\ UNCHANGED <<wallets, ledger, wallet_order>>
    /\ h_store' = StoreChange
    /\ UNCHANGED <<tt_vars, wb_vars, pv_vars, ws_vars, ss_vars>>

\* the cursors a caller can pass: none, or a signature of the history
Cursors(public_key) ==
    {NoCursor} \cup {Cursor(SignaturesFor(public_key)[i].signature) :
                        i \in 1..Len(SignaturesFor(public_key))}

NoRequest == [public_key |-> "", limit |-> 0, before |-> NoCursor]

HistoryIdle ==
    /\ wallets = <<>>
    /\ ledger = <<>>
    /\ h_call = NoRequest
    /\ h_status = 0
    /\ transactions = <<>>
    /\ h_height = 0
    /\ h_chained = FALSE
    /\ h_prev = <<>>
    /\ h_rpc = 0
    /\ h_store = [before |-> <<>>, after |-> <<>>]
    /\ wallet_order = <<>>

NoWalletCall == [op |-> "", public_key |-> ""]

WalletsIdle ==
    /\ w_call = NoWalletCall
    /\ w_status = 0
    /\ w_response = <<>>
    /\ w_rpc = 0
    /\ w_store = [before |-> <<>>, after |-> <<>>]

\* the keys of the keypairs generated while the wallet endpoints are called
WalletKeys == {"addr1", "addr3"}
WalletNames == {"main", "savings"}

WalletsNext ==
    \/ \E public_key \in WalletKeys, name \in WalletNames : CreateWallet(public_key, name)
    \/ GetWallets
    \/ \E public_key \in WalletKeys \cup {UnknownKey} : GetWallet(public_key)
    \/ \E public_key \in WalletKeys \cup {UnknownKey}, token_address \in TokenAddresses,
          answer \in AssociatedAccountAnswers :
           AddTokenToWallet(public_key, token_address, answer)
    \/ \E public_key \in WalletKeys \cup {UnknownKey}, limit \in 1..MaxPage :
           GetWalletTransactions(public_key, limit, NoCursor)

HistoryNext ==
    \/ \E public_key \in GeneratedKeys : CreateWallet(public_key, "main")
    \/ \E answer \in TransactionAnswers : SubmitTransaction(answer)
    \/ \E public_key \in GeneratedKeys \cup {UnknownKey}, limit \in 1..MaxPage :
           \E before \in Cursors(public_key) :
               GetWalletTransactions(public_key, limit, before)

-----------------------------------------------------------------------------
(* create_custom_token and request_airdrop, tokens.py:114-201 *)

\* CustomToken (models/__init__.py:18-22)
CustomToken(name, symbol, decimals, total_supply) ==
    [name |-> name, symbol |-> symbol, decimals |-> decimals, total_supply |-> total_supply]

TokenRequests ==
    {CustomToken(n, "TKN", d, 1000) : n \in {"Token", "Other"}, d \in {0, 6, 9}}

\* the answers of the ledger to the calls of the flow
BalanceReadAnswers == {"raises", "empty", "funded"}
AirdropAnswers == {"raises", "none", "signature"}
ConfirmAnswers == {"raises", "falsy", "truthy"}
MintAnswers == {"raises", "created"}

Call(name, answer) == [call |-> name, answer |-> answer]

\* tokens.py:131 without the check
AirdropFailedIgnored(answer) == FALSE

\* tokens.py:131, `if not response.value`
AirdropFailed(answer) == answer = "none"

\* tokens.py:174 without the check
ConfirmationFailedIgnored(confirmation) == FALSE

\* tokens.py:174, `if not confirmation`
ConfirmationFailed(confirmation) == confirmation = "falsy"

\* the order of the statements of tokens.py:166-188 with the balance re-read
\* of line 178 left out
StepAfterSkipsBalance(state) ==
    IF state = "Requested" THEN "AwaitingConfirmation"
    ELSE IF state = "AwaitingConfirmation" THEN "Funded"
    ELSE IF state = "Confirmed" THEN "Funded"
    ELSE "TokenCreated"

\* the order of the statements of tokens.py:166-188
StepAfter(state) ==
    IF state = "Requested" THEN "AwaitingConfirmation"
    ELSE IF state = "AwaitingConfirmation" THEN "Confirmed"
    ELSE IF state = "Confirmed" THEN "Funded"
    ELSE "TokenCreated"

\* tokens.py:199-201 (and 145-150): any exception ends in HTTPException 500
ProvisioningFails(calls) ==
    /\ pv_pc' = "Failed"
    /\ pv_calls' = calls
    /\ pv_status' = 500
    /\ pv_response' = <<>>

ProvisioningGoesOn(calls) ==
    /\ pv_pc' = StepAfter(pv_pc)
    /\ pv_calls' = calls
    /\ pv_status' = 0
    /\ pv_response' = <<>>

\* tokens.py:158-167: the mint authority is generated, its balance read and
\* the funds requested; request_airdrop (114-150) confirms before it returns
RequestFunds(token_data, balance_before, airdrop, confirmation) ==
    /\ pv_pc = "Requested"
    /\ pv_token_data' = token_data
    /\ LET read == pv_calls \o <<Call("get_balance", balance_before)>>
           requested == read \o <<Call("request_airdrop", airdrop)>>
           confirmed == requested \o <<Call("confirm_transaction", confirmation)>>
       IN IF balance_before = "raises" THEN ProvisioningFails(read)
          ELSE IF airdrop = "raises" \/ AirdropFailed(airdrop)
          THEN ProvisioningFails(requested)
          ELSE IF confirmation = "raises" THEN ProvisioningFails(confirmed)
          ELSE ProvisioningGoesOn(confirmed)
    /\ UNCHANGED <<tt_vars, wb_vars, h_vars, ws_vars, ss_vars>>

\* tokens.py:170-175: the settlement delay, then confirm_transaction
AwaitConfirmation(confirmation) ==
    /\ pv_pc = "AwaitingConfirmation"
    /\ LET waited == pv_calls \o <<Call("sleep", "elapsed"),
                                   Call("confirm_transaction", confirmation)>>
       IN IF confirmation = "raises" \/ ConfirmationFailed(confirmation)
          THEN ProvisioningFails(waited)
          ELSE ProvisioningGoesOn(waited)
    /\ UNCHANGED pv_token_data
    /\ UNCHANGED <<tt_vars, wb_vars, h_vars, ws_vars, ss_vars>>

\* tokens.py:178-179: the balance is read again and logged
ReadBalance(balance_after) ==
    /\ pv_pc = "Confirmed"
    /\ LET read == pv_calls \o <<Call("get_balance", balance_after)>>
       IN IF balance_after = "raises"
          THEN ProvisioningFails(read)
          ELSE ProvisioningGoesOn(read)
    /\ UNCHANGED pv_token_data
    /\ UNCHANGED <<tt_vars, wb_vars, h_vars, ws_vars, ss_vars>>

\* tokens.py:182-197: the mint is created and the TokenX returned
CreateMint(mint) ==
    /\ pv_pc = "Funded"
    /\ LET created == pv_calls \o <<Call("create_mint", mint)>>
       IN IF mint = "raises"
          THEN ProvisioningFails(created)
          ELSE /\ pv_pc' = StepAfter(pv_pc)
               /\ pv_calls' = created
               /\ pv_status' = 200
               /\ pv_response' = <<TokenX(pv_token_data.symbol, pv_token_data.name,
                                          "NewMint", JNull)>>
    /\ UNCHANGED pv_token_data
    /\ UNCHANGED <<tt_vars, wb_vars, h_vars, ws_vars, ss_vars>>

NoTokenData == CustomToken("", "", 0, 0)

ProvisionIdle ==
    /\ pv_pc = "Requested"
    /\ pv_token_data = NoTokenData
    /\ pv_calls = <<>>
    /\ pv_status = 0
    /\ pv_response = <<>>

ProvisionNext ==
    \/ \E token_data \in TokenRequests, balance_before \in BalanceReadAnswers,
          airdrop \in AirdropAnswers, confirmation \in ConfirmAnswers :
           RequestFunds(token_data, balance_before, airdrop, confirmation)
    \/ \E confirmation \in ConfirmAnswers : AwaitConfirmation(confirmation)
    \/ \E balance_after \in BalanceReadAnswers : ReadBalance(balance_after)
    \/ \E mint \in MintAnswers : CreateMint(mint)

-----------------------------------------------------------------------------
(* The dashboard session, frontend/main.py *)

\* how many private keys one run of the model generates
MaxKeys == 3

\* None, and the empty text of an input left blank: both are falsy
NoKey == 0

\* main.py:25-27, sha256 of the key: injective on the keys of the model
hash_private_key(private_key) == [sha256 |-> private_key]

NoWalletData == [none |-> TRUE, wallet |-> <<>>, private_key |-> NoKey]

\* main.py:43-56
init_session_state ==
    [authenticated |-> FALSE,
     current_private_key |-> NoKey,
     my_wallets |-> <<>>,
     show_private_key |-> FALSE,
     new_wallet_data |-> NoWalletData]

\* main.py:66-76: the file's content, or {} when it cannot be read
load_stored_data(storage) == IF storage = "unreadable" THEN <<>> ELSE wallet_file

\* main.py:79-86: the file is rewritten, unless writing raises
save_data(data, storage) == IF storage = "unwritable" THEN wallet_file ELSE data

\* all_wallets[hashed_key] = wallet_data
Stored(all_wallets, hashed_key, wallet_data) ==
    [h \in DOMAIN all_wallets \cup {hashed_key} |->
        IF h = hashed_key THEN wallet_data ELSE all_wallets[h]]

\* main.py:412-416: what the Logout button assigns
LoggedOut(state) ==
    [state EXCEPT !.authenticated = FALSE,
                  !.current_private_key = NoKey,
                  !.my_wallets = <<>>]

\* main.py:396-402 and 265: the notice is part of the page
NoticeShown ==
    /\ session_state.authenticated
    /\ session_state.show_private_key
    /\ ~session_state.new_wallet_data.none

\* main.py:272, the key st.code displays
NoticeKey == session_state.new_wallet_data.private_key

\* the answers of POST /wallets/wallet as requests.post delivers them
CreateResponses == {"200", "500", "raises"}
StorageAnswers == {"ok", "unreadable", "unwritable"}
FormNames == {"", "main", "savings"}

\* data["public_key"] of the n-th wallet the backend created: a new address
AddressOf(n) == <<"addr", n>>

\* main.py:250-260 and 186-225: the create form of the login page is submitted
SubmitCreateWallet(wallet_name, response, storage) ==
    /\ ~session_state.authenticated
    /\ IF wallet_name = "" \/ response # "200"
       THEN UNCHANGED ss_vars
       ELSE /\ keys_generated < MaxKeys
            /\ LET private_key == keys_generated + 1
                   hashed_key == hash_private_key(private_key)
                   wallet_data == [name |-> wallet_name, public_key |-> AddressOf(private_key),
                                   hashed_private_key |-> hashed_key]
                   all_wallets == Stored(load_stored_data(storage), hashed_key, wallet_data)
               IN /\ keys_generated' = private_key
                  /\ wallet_file' = save_data(all_wallets, storage)
                  /\ session_state' =
                         [authenticated |-> TRUE,
                          current_private_key |-> private_key,
                          my_wallets |-> [n \in {wallet_name} |-> wallet_data],
                          show_private_key |-> TRUE,
                          new_wallet_data |-> [none |-> FALSE, wallet |-> wallet_data,
                                               private_key |-> private_key]]
    /\ UNCHANGED <<tt_vars, wb_vars, h_vars, pv_vars, ws_vars>>

\* main.py:89-104; [ok, state]
verify_private_key(private_key, storage) ==
    LET hashed_key == hash_private_key(private_key)
        all_wallets == load_stored_data(storage)
    IN IF private_key = NoKey \/ hashed_key \notin DOMAIN all_wallets
       THEN [ok |-> FALSE, state |-> session_state]
       ELSE [ok |-> TRUE,
             state |-> [session_state EXCEPT
                           !.authenticated = TRUE,
                           !.current_private_key = private_key,
                           !.my_wallets = [n \in {all_wallets[hashed_key].name} |->
                                              all_wallets[hashed_key]]]]

\* main.py:234-246: the login form is submitted
SubmitLogin(private_key, storage) ==
    /\ ~session_state.authenticated
    /\ session_state' = verify_private_key(private_key, storage).state
    /\ UNCHANGED <<wallet_file, keys_generated>>
    /\ UNCHANGED <<tt_vars, wb_vars, h_vars, pv_vars, ws_vars>>

\* main.py:274-277: "I have saved my private key"
AcknowledgeNotice ==
    /\ NoticeShown
    /\ session_state' = [session_state EXCEPT !.show_private_key = FALSE,
                                              !.new_wallet_data = NoWalletData]
    /\ UNCHANGED <<wallet_file, keys_generated>>
    /\ UNCHANGED <<tt_vars, wb_vars, h_vars, pv_vars, ws_vars>>

\* main.py:412-416: the Logout button of the sidebar
Logout ==
    /\ session_state.authenticated
    /\ session_state' = LoggedOut(session_state)
    /\ UNCHANGED <<wallet_file, keys_generated>>
    /\ UNCHANGED <<tt_vars, wb_vars, h_vars, pv_vars, ws_vars>>

DashboardIdle ==
    /\ session_state = init_session_state
    /\ wallet_file = <<>>
    /\ keys_generated = 0

DashboardNext ==
    \/ \E wallet_name \in FormNames, response \in CreateResponses,
          storage \in StorageAnswers :
           SubmitCreateWallet(wallet_name, response, storage)
    \/ \E private_key \in NoKey..(MaxKeys + 1), storage \in {"ok", "unreadable"} :
           SubmitLogin(private_key, storage)
    \/ AcknowledgeNotice
    \/ Logout

-----------------------------------------------------------------------------
(* Specifications: one per operation, the other operations idle *)

TrendingInit ==
    /\ samples \in SampleAnswers
    /\ chain \in [1..Len(samples.value) -> BlockAnswers]
    /\ TrendingIdle
    /\ BalanceIdle
    /\ HistoryIdle
    /\ ProvisionIdle
    /\ WalletsIdle
    /\ DashboardIdle

SpecTrending == TrendingInit /\ [][TrendingNext]_vars

BalanceInit ==
    /\ samples = [raises |-> TRUE, value |-> <<>>]
    /\ chain = <<>>
    /\ TrendingIdle
    /\ BalanceIdle
    /\ HistoryIdle
    /\ ProvisionIdle
    /\ WalletsIdle
    /\ DashboardIdle

SpecBalance == BalanceInit /\ [][BalanceNext]_vars

HistoryInit ==
    /\ samples = [raises |-> TRUE, value |-> <<>>]
    /\ chain = <<>>
    /\ TrendingIdle
    /\ BalanceIdle
    /\ HistoryIdle
    /\ ProvisionIdle
    /\ WalletsIdle
    /\ DashboardIdle

SpecHistory == HistoryInit /\ [][HistoryNext]_vars

ProvisionInit ==
    /\ samples = [raises |-> TRUE, value |-> <<>>]
    /\ chain = <<>>
    /\ TrendingIdle
    /\ BalanceIdle
    /\ HistoryIdle
    /\ ProvisionIdle
    /\ WalletsIdle
    /\ DashboardIdle

SpecProvision == ProvisionInit /\ [][ProvisionNext]_vars

WalletsInit ==
    /\ samples = [raises |-> TRUE, value |-> <<>>]
    /\ chain = <<>>
    /\ TrendingIdle
    /\ BalanceIdle
    /\ HistoryIdle
    /\ ProvisionIdle
    /\ WalletsIdle
    /\ DashboardIdle

SpecWallets == WalletsInit /\ [][WalletsNext]_vars

DashboardInit ==
    /\ samples = [raises |-> TRUE, value |-> <<>>]
    /\ chain = <<>>
    /\ TrendingIdle
    /\ BalanceIdle
    /\ HistoryIdle
    /\ ProvisionIdle
    /\ WalletsIdle
    /\ DashboardIdle

SpecDashboard == DashboardInit /\ [][DashboardNext]_vars

-----------------------------------------------------------------------------
(* What the scan window holds, read off the ledger alone *)

\* the accounts one block contributes: every account key of every transaction
\* that references the token program, kept when its metadata resolves
BlockSightings(block) ==
    LET References(keys) == TOKEN_PROGRAM_ID \in SeqRange(keys)
        Resolves(account) == account \in Mints \ block.down
    IN SelectSeq(Flatten(SelectSeq(block.txs, References)), Resolves)

ResolvedSlots == {i \in DOMAIN chain : chain[i].kind = "block"}
AbsentSlots == {i \in DOMAIN chain : chain[i].kind = "absent"}
RaisingSlots == {i \in DOMAIN chain : chain[i].kind = "raises"}

\* the sightings of the window, in scan order; an absent block has none
WindowSightings == Flatten([i \in DOMAIN chain |-> BlockSightings(chain[i])])

Participation(address) ==
    Cardinality({i \in 1..Len(WindowSightings) : WindowSightings[i] = address})

FirstSeen(address) ==
    CHOOSE i \in 1..Len(WindowSightings) :
        /\ WindowSightings[i] = address
        /\ \A j \in 1..(i - 1) : WindowSightings[j] # address

RanksBefore(a, b) ==
    \/ Participation(a) > Participation(b)
    \/ Participation(a) = Participation(b) /\ FirstSeen(a) < FirstSeen(b)

\* the ranking of the window: every sighted address once, ordered by RanksBefore
WindowRanking ==
    LET sighted == SeqRange(WindowSightings)
        n == Cardinality(sighted)
    IN CHOOSE r \in [1..n -> sighted] :
           /\ \A i, j \in 1..n : i < j => RanksBefore(r[i], r[j])

AddressesOf(list) == [i \in 1..Len(list) |-> list[i].address]

-----------------------------------------------------------------------------
(* Claims on get_trending_tokens *)

\* C1: for every scan window and every limit >= 0, a returned list has at most
\* limit entries, is ordered by participation count descending, and entries
\* of equal count keep the order in which their addresses were first recorded.
C1_RankedAndBounded ==
    (tt_pc = "done" /\ tt_limit >= 0) =>
        /\ Len(tokens) <= tt_limit
        /\ \A i, j \in 1..Len(tokens) :
               i < j => RanksBefore(tokens[i].address, tokens[j].address)

\* a returned list of two entries of equal count, in first-seen order
C1_Witness ==
    /\ tt_pc = "done"
    /\ tt_limit >= 2
    /\ AddressesOf(tokens) = <<"MintB", "MintA">>
    /\ Participation("MintA") = Participation("MintB")

\* C2: when the samples are a non-empty list and get_block yields no block for
\* every slot, the operation ends in failure and never in an (empty) success.
C2_AllBlocksAbsentFails ==
    (/\ ~samples.raises
     /\ samples.value # <<>>
     /\ AbsentSlots = DOMAIN chain) => tt_pc # "done"

\* some slots absent, some resolved, none raising
PartialWindow ==
    /\ ~samples.raises
    /\ AbsentSlots # {}
    /\ ResolvedSlots # {}
    /\ RaisingSlots = {}

\* C3: with some but not all slots absent the scan does not fail, every slot
\* is still requested, and the result is the ranking over the resolved blocks
\* cut to limit; with 5 slots, 3 resolved, 2 absent, sightings present and a
\* limit of at least 1, the result is non-empty.
C3_AbsentBlocksSkipped ==
    PartialWindow =>
        /\ tt_pc # "failed"
        /\ tt_pc = "done" =>
              /\ block_calls = samples.value
              /\ AddressesOf(tokens) = SliceTo(WindowRanking, tt_limit)
              /\ (/\ Len(samples.value) = 5
                  /\ Cardinality(ResolvedSlots) = 3
                  /\ WindowSightings # <<>>
                  /\ tt_limit >= 1) => tokens # <<>>

\* 5 slots, 3 resolved and 2 absent, the first one absent, a non-empty result
C3_Witness ==
    /\ PartialWindow
    /\ tt_pc = "done"
    /\ Len(samples.value) = 5
    /\ Cardinality(ResolvedSlots) = 3
    /\ chain[1].kind = "absent"
    /\ Len(tokens) = 2

\* C4: when the sample fetch raises or returns an empty list the operation
\* fails: no get_block call, no metadata call, no list returned.
C4_NoSamplesFails ==
    (samples.raises \/ samples.value = <<>>) =>
        /\ tt_pc \in {"idle", "failed"}
        /\ tt_status # 200
        /\ block_calls = <<>>
        /\ metadata_calls = 0
        /\ tokens = <<>>

\* the empty list of samples, answered with the failure
C4_Witness ==
    /\ ~samples.raises
    /\ samples.value = <<>>
    /\ tt_pc = "failed"
    /\ tt_status = 500

-----------------------------------------------------------------------------
(* Claims on get_wallet_balance *)

Called == wb_status # 0

\* the token-account answer is a list of entries, of any shape
AccountsReturned ==
    /\ ~wb_call.tokens.raises
    /\ HasKey(wb_call.tokens.data, "result")

ReturnedAccounts == wb_call.tokens.data.v["result"].v["value"].v

NativeDefined == wb_call.public_key.valid /\ ~wb_call.balance.none

\* the returned native balance is the ledger's amount over 10^9: scaled back
\* by 10^9 it gives the two limbs of the amount
NativeBalanceExact ==
    LET sol == wb_response[1].sol_balance
        scale == (10 ^ 9) \div LimbBase
    IN /\ sol.nanos >= 0
       /\ sol.nanos < 10 ^ 9
       /\ sol.whole * scale + (sol.nanos \div LimbBase) = wb_call.balance.hi
       /\ sol.nanos % LimbBase = wb_call.balance.lo

\* C5: with a defined native balance the call succeeds and returns that
\* balance whatever the token-account entries look like; an entry that does
\* not parse only shortens the token list.
C5_TokenEntriesNeverFailBalance ==
    (Called /\ NativeDefined /\ AccountsReturned) =>
        /\ wb_status = 200
        /\ wb_response # <<>>
        /\ NativeBalanceExact
        /\ Len(wb_response[1].tokens) <= Len(ReturnedAccounts)

\* C6: when the ledger returns no value for the native balance the call
\* fails: no WalletBalance is returned and no token accounts are fetched.
C6_NoNativeBalanceFails ==
    (Called /\ wb_call.balance.none) =>
        /\ wb_status = 500
        /\ wb_response = <<>>
        /\ ~wb_token_fetch

\* a valid address whose balance has no value, answered with the failure
C6_Witness ==
    /\ Called
    /\ wb_call.public_key.valid
    /\ wb_call.balance.none
    /\ wb_status = 500

\* C7: a returned native balance is the ledger's amount over 10^9; with zero
\* token accounts the call succeeds with an empty token list; 2_500_000_000
\* smallest units and no token accounts give 2.5 and [].
C7_NativeBalanceScaled ==
    /\ (Called /\ wb_status = 200) => NativeBalanceExact
    /\ (Called /\ NativeDefined /\ AccountsReturned /\ ReturnedAccounts = <<>>) =>
          /\ wb_status = 200
          /\ wb_response[1].tokens = <<>>
          /\ (wb_call.balance.hi = 25000 /\ wb_call.balance.lo = 0) =>
                wb_response[1].sol_balance = SolAmount(2, 500000000)

\* 2_500_000_000 smallest units, no token accounts: 2.5 and []
C7_Witness ==
    /\ Called
    /\ NativeDefined
    /\ wb_call.balance.hi = 25000
    /\ wb_call.balance.lo = 0
    /\ AccountsReturned
    /\ ReturnedAccounts = <<>>
    /\ wb_response = <<WalletBalance(SolAmount(2, 500000000), JNull, <<>>)>>

-----------------------------------------------------------------------------
(* Claims on get_wallet_transactions *)

\* the history of the queried address when the last call was made
HistoryAtCall ==
    LET history == SignaturesFor(h_call.public_key)
    IN SubSeq(history, Len(history) - h_height + 1, Len(history))

Resolvable(signature_info) == signature_info.answer \in {"receive", "send"}

\* C8: a returned page holds at most limit records (the ledger returns at
\* most limit signatures per query).
C8_PageWithinLimit ==
    h_status = 200 => Len(transactions) <= h_call.limit

\* a full page of a history that holds more signatures than the limit
C8_Witness ==
    /\ h_status = 200
    /\ h_call.before.none
    /\ h_call.limit = 2
    /\ h_height > 2
    /\ Len(transactions) = 2

\* C9: when a call passes as cursor the signature of the last record of the
\* non-empty page before, no signature of its page was on the page before.
C9_CursorNeverRepeats ==
    (h_chained /\ h_status = 200) =>
        SeqRange(SignaturesOf(transactions)) \cap SeqRange(h_prev) = {}

\* a second, non-empty page after a first page that skipped a signature
C9_Witness ==
    /\ h_chained
    /\ h_status = 200
    /\ transactions # <<>>
    /\ \E i \in 1..(Len(h_prev) - 1) : h_prev[i] - h_prev[i + 1] > 1

\* the 3 newest signatures: 2 resolvable transactions and 1 with no value,
\* queried for a stored wallet without cursor and with limit 2
TwoOfThreeResolvable ==
    /\ h_status \in {200, 500}
    /\ h_call.before.none
    /\ h_call.limit = 2
    /\ h_height >= 3
    /\ LET newest == SubSeq(HistoryAtCall, 1, 3)
       IN /\ Cardinality({i \in 1..3 : Resolvable(newest[i])}) = 2
          /\ Cardinality({i \in 1..3 : newest[i].answer = "absent"}) = 1

\* C10 as stated: in that case the call returns exactly 2 records, in the
\* order the ledger returned their signatures.
C10_ExactlyTwoRecords ==
    TwoOfThreeResolvable =>
        /\ h_status = 200
        /\ Len(transactions) = 2
        /\ transactions[1].signature > transactions[2].signature

\* C10 as amended: in that case the call returns the records of the
\* resolvable transactions among the 2 newest signatures, in the ledger's
\* order: 2 records when the third-newest is the unresolvable one, 1 otherwise.
C10_ResolvableOfTwoNewest ==
    TwoOfThreeResolvable =>
        LET newest == SubSeq(HistoryAtCall, 1, 3)
        IN /\ h_status = 200
           /\ SignaturesOf(transactions) =
                 SignaturesOf(SelectSeq(SubSeq(newest, 1, 2), Resolvable))
           /\ Len(transactions) = IF newest[3].answer = "absent" THEN 2 ELSE 1

\* the newest signature is the unresolvable one: one record comes back
C10_Witness ==
    /\ TwoOfThreeResolvable
    /\ HistoryAtCall[1].answer = "absent"
    /\ h_status = 200
    /\ Len(transactions) = 1

\* the ledger's entry of a signature of the queried address
EntryOf(signature) ==
    LET history == SignaturesFor(h_call.public_key)
    IN history[CHOOSE i \in 1..Len(history) : history[i].signature = signature]

\* C11: every returned record carries exactly one direction: receive when the
\* queried address is the destination of the transfer, send otherwise.
C11_OneDirectionPerRecord ==
    h_status = 200 =>
        \A i \in 1..Len(transactions) :
            LET record == transactions[i]
                to_queried == EntryOf(record.signature).answer = "receive"
            IN /\ record.type \in {"receive", "send"}
               /\ record.type = "receive" <=> to_queried
               /\ to_queried <=> record.to_address = h_call.public_key

\* a page that holds a transfer to the address and a transfer from it
C11_Witness ==
    /\ h_status = 200
    /\ \E i, j \in 1..Len(transactions) :
           /\ transactions[i].type = "receive"
           /\ transactions[j].type = "send"

-----------------------------------------------------------------------------
(* The provisioning flow *)

CallNames(calls) == [i \in 1..Len(calls) |-> calls[i].call]

Made(name) == \E i \in 1..Len(pv_calls) : pv_calls[i].call = name

Answered(name, answer) ==
    \E i \in 1..Len(pv_calls) : pv_calls[i] = Call(name, answer)

\* the answer confirm_transaction gave after the settlement delay
ConfirmedAfterDelay(answer) ==
    \E i \in 2..Len(pv_calls) :
        /\ pv_calls[i - 1].call = "sleep"
        /\ pv_calls[i] = Call("confirm_transaction", answer)

\* the calls of a complete run, in the order of tokens.py:162-188
ProvisioningCalls ==
    <<"get_balance", "request_airdrop", "confirm_transaction",
      "sleep", "confirm_transaction", "get_balance", "create_mint">>

Terminal == {"TokenCreated", "Failed"}

\* how many calls of ProvisioningCalls precede each state
CallsBefore(state) ==
    IF state = "Requested" THEN 0
    ELSE IF state = "AwaitingConfirmation" THEN 3
    ELSE IF state = "Confirmed" THEN 5
    ELSE IF state = "Funded" THEN 6
    ELSE 7

\* C12: when the funds request returns no signature the flow is Failed, and
\* the run holds no settlement delay, no confirmation, no second balance
\* read and no mint creation.
C12_NoSignatureFails ==
    Answered("request_airdrop", "none") =>
        /\ pv_pc = "Failed"
        /\ pv_status = 500
        /\ ~Made("sleep")
        /\ ~Made("confirm_transaction")
        /\ ~Made("create_mint")
        /\ CallNames(pv_calls) = <<"get_balance", "request_airdrop">>

C12_Witness ==
    /\ Answered("request_airdrop", "none")
    /\ pv_pc = "Failed"

\* C13: when confirm_transaction, called after the settlement delay, answers
\* that the funding is not confirmed, the flow is Failed and no mint was
\* created.
C13_UnconfirmedFails ==
    ConfirmedAfterDelay("falsy") =>
        /\ pv_pc = "Failed"
        /\ pv_status = 500
        /\ pv_response = <<>>
        /\ ~Made("create_mint")

C13_Witness ==
    /\ ConfirmedAfterDelay("falsy")
    /\ pv_pc = "Failed"

\* C16: the calls of a run are a prefix of the calls of a complete run; every
\* state but Failed is entered after exactly the calls that precede it, none
\* of which raised, with a signature returned and the funding confirmed after
\* the delay; every non-terminal state has a step to Failed, and a terminal
\* state has no step at all.
C16_ProvisioningOrder ==
    /\ pv_pc \in {"Requested", "AwaitingConfirmation", "Confirmed", "Funded"} \cup Terminal
    /\ Len(pv_calls) <= Len(ProvisioningCalls)
    /\ CallNames(pv_calls) = SubSeq(ProvisioningCalls, 1, Len(pv_calls))
    /\ pv_pc # "Failed" =>
           /\ Len(pv_calls) = CallsBefore(pv_pc)
           /\ \A i \in 1..Len(pv_calls) : pv_calls[i].answer \notin {"raises", "none"}
           /\ ~ConfirmedAfterDelay("falsy")
    /\ Made("create_mint") =>
           /\ Answered("request_airdrop", "signature")
           /\ ConfirmedAfterDelay("truthy")
           /\ Len(pv_calls) = Len(ProvisioningCalls)
           /\ pv_calls[Len(pv_calls) - 1].answer \in {"empty", "funded"}
    /\ pv_pc \notin Terminal => ENABLED (ProvisionNext /\ pv_pc' = "Failed")
    /\ pv_pc \in Terminal => ~ENABLED ProvisionNext

C16_Witness ==
    /\ pv_pc = "TokenCreated"
    /\ pv_status = 200
    /\ Len(pv_response) = 1

-----------------------------------------------------------------------------
(* Failures of single items *)

\* the blocks get_block was asked for and raised on
RaisedBlocks == {i \in SeqRange(block_calls) : chain[i].kind = "raises"}

FailedFetches == {i \in 1..Len(metadata_fetched) : ~metadata_fetched[i].found}

\* C14 as stated: a get_block that raises, a get_transaction that raises or a
\* metadata fetch that fails is skipped, and the enclosing operation does not
\* fail.
C14_ItemFailureSkipped ==
    /\ (tt_pc # "idle" /\ ~SamplesUnusable(samples)) =>
           /\ RaisedBlocks # {} => tt_pc # "failed"
           /\ FailedFetches # {} => tt_pc # "failed"
    /\ h_status \in {200, 500} => h_status = 200

-----------------------------------------------------------------------------
(* Requests that name an unknown wallet *)

UnknownTo(store, public_key) == public_key \notin DOMAIN store

\* C15: get_wallet, add_token_to_wallet and get_wallet_transactions, called
\* with a public key the store does not hold, answer 404, make no RPC call
\* and leave the store as it was.
C15_UnknownWalletNotFound ==
    /\ (/\ w_call.op \in {"get_wallet", "add_token_to_wallet"}
        /\ UnknownTo(w_store.before, w_call.public_key)) =>
           /\ w_status = 404
           /\ w_rpc = 0
           /\ w_response = <<>>
           /\ w_store.after = w_store.before
    /\ (h_status # 0 /\ UnknownTo(h_store.before, h_call.public_key)) =>
           /\ h_status = 404
           /\ h_rpc = 0
           /\ transactions = <<>>
           /\ h_store.after = h_store.before

\* a non-empty store, and both a wallet endpoint and the history asked for a
\* key it does not hold
C15_Witness ==
    /\ w_call.op = "add_token_to_wallet"
    /\ w_store.before # <<>>
    /\ UnknownTo(w_store.before, w_call.public_key)
    /\ w_status = 404
    /\ h_status = 404
    /\ h_store.before # <<>>
    /\ UnknownTo(h_store.before, h_call.public_key)

-----------------------------------------------------------------------------
(* Sightings and metadata fetches of the scan *)

\* every account key of every transaction of an available block that
\* references the token program
RawSightings(block) ==
    LET References(keys) == TOKEN_PROGRAM_ID \in SeqRange(keys)
    IN IF block.kind = "block" THEN Flatten(SelectSeq(block.txs, References)) ELSE <<>>

AllSightings == Flatten([i \in DOMAIN chain |-> RawSightings(chain[i])])

SightingsOf(address) ==
    Cardinality({i \in 1..Len(AllSightings) : AllSightings[i] = address})

\* C17 as stated: no address without resolvable metadata is returned, and the
\* count an address is ranked by is the number of its sightings in the
\* available blocks.
C17_CountIsSightings ==
    tt_pc = "done" =>
        /\ \A i \in 1..Len(tokens) : tokens[i].address \in Mints
        /\ \A i \in 1..Len(token_transactions) :
               token_transactions[i].count = SightingsOf(token_transactions[i].address)

\* C18 as stated: no address is passed to get_token_metadata twice in one run.
C18_OneFetchPerAddress ==
    \A i, j \in 1..Len(metadata_fetched) :
        i < j => metadata_fetched[i].address # metadata_fetched[j].address

-----------------------------------------------------------------------------
(* The wallet store and the responses *)

\* C19 as stated: create_wallet answers 200 and the store gained one wallet,
\* or it answers an error and the store is as it was.
C19_CreateAllOrNothing ==
    w_call.op = "create_wallet" =>
        \/ /\ w_status = 200
           /\ Cardinality(DOMAIN w_store.after) = Cardinality(DOMAIN w_store.before) + 1
        \/ /\ w_status # 200
           /\ w_store.after = w_store.before

\* C20 as stated: no record of a response of create_wallet, get_wallets or
\* get_wallet holds the private key of a stored wallet.
C20_NoPrivateKeyInResponse ==
    w_call.op \in {"create_wallet", "get_wallets", "get_wallet"} =>
        \A i \in 1..Len(w_response) :
            "private_key" \in DOMAIN w_response[i] =>
                \A k \in DOMAIN wallets : w_response[i].private_key # wallets[k].private_key

-----------------------------------------------------------------------------
(* The one-time notice of the dashboard *)

=============================================================================
